---- MODULE Spec2Model ----
(***************************************************************************)
(* Cinco Coffee web site: the client-side session / cart / rate-limiting   *)
(* state machine.  All state lives in the browser's localStorage plus a    *)
(* few closure variables of the page script.                               *)
(*                                                                         *)
(* Two scripts are modelled:                                               *)
(*   - the unified script (src/unnamed/part_001): SessionManager,          *)
(*     login rate limiter, per-user cart 'cincoCart', checkout listeners,  *)
(*     verifyCartIntegrity;                                                *)
(*   - the older script src/cincoscript.js: 'currentUser', the single      *)
(*     cart 'cincoCoffeeCart'.                                             *)
(*                                                                         *)
(* Time is Date.now() in milliseconds.  The clock only moves in the        *)
(* AdvanceTime action, by one of a few step sizes; every handler runs at   *)
(* one instant (the browser is single threaded).                           *)
(***************************************************************************)
EXTENDS Integers, Sequences, FiniteSets, TLC

(***************************************************************************)
(* Program constants                                                       *)
(***************************************************************************)
SESSION_TIMEOUT_MS == 30 * 60 * 1000

MONITOR_INTERVAL_MS == 60 * 1000

ACTIVITY_THROTTLE_MS == 5000

MAX_LOGIN_ATTEMPTS == 5

LOCKOUT_MS == 15 * 60 * 1000

(***************************************************************************)
(* Bounds of the model                                                     *)
(***************************************************************************)
\* number of clock advances in one behaviour
MaxAdvances == 2

\* login submissions that may be waiting for executeRecaptcha at once
MaxPending == 2

\* recorded failures per e-mail key (the code has no upper limit)
MaxAttempts == 6

\* registered users
MaxUsers == 2

(***************************************************************************)
(* Input domains                                                           *)
(***************************************************************************)
\* e-mail strings as typed into the forms; "A@x.co" differs from "a@x.co"
\* in letter case only
RawEmails == {"a@x.co", "A@x.co", "b@x.co"}

\* String(email).trim().toLowerCase() -- part_001:601, 614, 637, 1007
\* (no domain value carries surrounding blanks, so trim changes nothing)
Lower(e) == IF e = "A@x.co" THEN "a@x.co" ELSE e

Keys == {Lower(e) : e \in RawEmails}

Passwords == {"pw-one-1", "pw-two-2"}

\* bcrypt.hash / bcrypt.compareSync, a black box: compare succeeds exactly
\* on the hash of the same password -- part_001:861, 1118
bcryptHash(p) == <<"$2b$10$", p>>

bcryptCompareSync(p, h) == h = bcryptHash(p)

\* the value of Date.now() when the site is first opened
StartTime == 1000000

(***************************************************************************)
(* Product catalogue -- part_001:1850-1865, 2722-2735                      *)
(***************************************************************************)
\* the price table of verifyCartIntegrity
MENU_PRICES ==
  ("Americano" :> 70) @@ ("Cafe Latte" :> 80) @@ ("Spanish Latte" :> 90) @@
  ("French Vanilla" :> 90) @@ ("White Choco Mocha" :> 100) @@
  ("Sea Salt Latte" :> 100) @@ ("Caramel Macchiato" :> 100) @@
  ("Milky Ube" :> 90) @@ ("Strawberry Milk" :> 90) @@
  ("Caramel Milk" :> 90) @@ ("Matcha Latte" :> 100) @@ ("Milky Choco" :> 100)

RECURSIVE Join(_, _)
Join(words, sep) ==
  IF Len(words) = 1 THEN words[1]
  ELSE words[1] \o sep \o Join(Tail(words), sep)

\* the data-name attribute of a product button, given as its words
NameOf(words) == Join(words, " ")

\* `${name.replace(/\s+/g, "-")}-${size}`
ItemId(words, size) == Join(words, "-") \o "-" \o size

\* the add-to-cart buttons a menu page carries
Buttons ==
  {[words |-> <<"Americano">>, size |-> "350ml"],
   [words |-> <<"Americano">>, size |-> "16oz"],
   [words |-> <<"White", "Choco", "Mocha">>, size |-> "16oz"]}

\* lines in one user's cart
MaxLines == 2

\* quantity of one line
MaxQty == 2

NoEntry == [attempts |-> -1]

NoSession == [userId |-> -1]

VARIABLES
  now,            \* Date.now()
  advances,       \* clock advances so far (bounded by MaxAdvances)
  page,           \* the page the browser tab shows
  redirect,       \* pending setTimeout(() => location.href = ..., delay)
  cincoUsers,     \* localStorage 'cincoUsers': array of {id, email, password}
  loginAttempts,  \* localStorage 'cinco_login_attempts_v2': key -> entry
  pending,        \* login submissions between the lock check and the
                  \* continuation of executeRecaptcha().then(...)
  lastLock,       \* what the last isLocked(email) call returned
  cincoSession,   \* localStorage 'cincoSession'
  sessionV1,      \* localStorage 'cinco_session_v1' (SessionManager)
  lastActivityTs, \* SessionManager closure variable (per page load)
  lifecycle,      \* spec 4.1 state: "Anonymous", "Active" or "Expired"
  idleFrom,       \* time of the last login, signup, page load or activity
  checksRun,      \* periodic checks run since inactivity exceeded the timeout
  refreshWrites,  \* times at which refresh() returned true on this page
  lastCheckAt,    \* time of the last periodic check on this page, 0 if none
  cincoCart,      \* localStorage 'cincoCart'
  checkoutSession,\* initCheckoutPage closure variable `session`
  integrityBound, \* the integrity submit listener is bound to the form
  orders,         \* order numbers generated by the last submit
  successModal,   \* the order-success modal is shown
  emptyNotices,   \* 'Your cart is empty' notices of the last submit
  lastVerify,     \* outcome of the last verifyCartIntegrity() call
  added,          \* per user and product button: addToCart calls since the
                  \* line was last removed
  cartModal,      \* #cartModal .cart-items of this tab: the item id behind
                  \* each .remove-item-btn, position = data-idx + 1
  users,          \* cincoscript.js localStorage 'users': email -> record
  currentUser,    \* cincoscript.js localStorage 'currentUser'
  userSession,    \* cincoscript.js localStorage 'userSession'
  failedAttempts, \* cincoscript.js localStorage 'failedAttempts_<email>'
  cincoCoffeeCart,\* cincoscript.js localStorage 'cincoCoffeeCart'
  cart            \* cincoscript.js module variable `cart`

clockVars == <<now, advances>>

pageVars == <<page, redirect>>

limiterVars == <<cincoUsers, loginAttempts, pending, lastLock>>

sessionVars == <<cincoSession, sessionV1, lastActivityTs>>

traceVars == <<refreshWrites, lastCheckAt>>

ghostVars == <<lifecycle, idleFrom, checksRun, refreshWrites, lastCheckAt>>

cartVars == <<cincoCart, lastVerify, added, cartModal>>

checkoutVars == <<checkoutSession, integrityBound, orders, successModal,
                  emptyNotices>>

legacyVars == <<users, currentUser, userSession, failedAttempts,
                cincoCoffeeCart, cart>>

vars == <<now, advances, page, redirect, cincoUsers, loginAttempts, pending,
          lastLock, cincoSession, sessionV1, lastActivityTs, lifecycle, idleFrom,
          checksRun, refreshWrites, lastCheckAt, cincoCart, checkoutSession, integrityBound, orders,
          successModal, emptyNotices, lastVerify, added, cartModal, users,
          currentUser,
          userSession, failedAttempts, cincoCoffeeCart, cart>>

(***************************************************************************)
(* Login rate limiter -- part_001:580-662                                  *)
(***************************************************************************)
\* const entry = map[key] || {attempts: 0, firstTs: 0, lastTs: 0, lockedUntil: 0}
getLoginStatus(map, email) ==
  LET key == Lower(email)
  IN  IF map[key] # NoEntry
      THEN map[key]
      ELSE [attempts |-> 0, firstTs |-> 0, lastTs |-> 0, lockedUntil |-> 0]

\* recordFailedLogin with the threshold test off by one (> instead of >=)
recordFailedLogin_LateLock(map, email, nowTs) ==
  LET key == Lower(email)
      e0 == IF map[key] # NoEntry
            THEN map[key]
            ELSE [attempts |-> 0, firstTs |-> nowTs, lastTs |-> nowTs,
                  lockedUntil |-> 0]
      e1 == [e0 EXCEPT !.attempts = e0.attempts + 1, !.lastTs = nowTs]
      e3 == IF e1.attempts > MAX_LOGIN_ATTEMPTS
            THEN [e1 EXCEPT !.lockedUntil = nowTs + LOCKOUT_MS]
            ELSE e1
  IN  [map EXCEPT ![key] = e3]

\* the map recordFailedLogin(email) writes back, called at time nowTs
recordFailedLogin(map, email, nowTs) ==
  LET key == Lower(email)
      e0 == IF map[key] # NoEntry
            THEN map[key]
            ELSE [attempts |-> 0, firstTs |-> nowTs, lastTs |-> nowTs,
                  lockedUntil |-> 0]
      e1 == [e0 EXCEPT !.attempts = e0.attempts + 1, !.lastTs = nowTs]
      e2 == IF e1.firstTs = 0 THEN [e1 EXCEPT !.firstTs = nowTs] ELSE e1
      e3 == IF e2.attempts >= MAX_LOGIN_ATTEMPTS
            THEN [e2 EXCEPT !.lockedUntil = nowTs + LOCKOUT_MS]
            ELSE e2
  IN  [map EXCEPT ![key] = e3]

\* resetLoginAttempts deleting map[email] without trimming and lower-casing
resetLoginAttempts_RawKey(map, email) ==
  IF email \in DOMAIN map THEN [map EXCEPT ![email] = NoEntry] ELSE map

\* resetLoginAttempts zeroing the entry instead of deleting it
resetLoginAttempts_ZeroCount(map, email) ==
  [map EXCEPT ![Lower(email)] =
     [attempts |-> 0, firstTs |-> 0, lastTs |-> 0, lockedUntil |-> 0]]

\* delete map[key]
resetLoginAttempts(map, email) == [map EXCEPT ![Lower(email)] = NoEntry]

\* isLocked(email) at time nowTs: the returned object and the branch taken
isLocked(map, email, nowTs) ==
  LET entry == getLoginStatus(map, email)
  IN  IF entry.lockedUntil = 0
      THEN [locked |-> FALSE, remaining |-> 0, attempts |-> entry.attempts,
            unlocked |-> FALSE]
      ELSE IF nowTs < entry.lockedUntil
      THEN [locked |-> TRUE, remaining |-> entry.lockedUntil - nowTs,
            attempts |-> entry.attempts, unlocked |-> FALSE]
      ELSE [locked |-> FALSE, remaining |-> 0, attempts |-> 0,
            unlocked |-> TRUE]

\* the expiry branch of isLocked writing back an empty map
isLockedStore_ClearsAll(map, email, nowTs) ==
  IF isLocked(map, email, nowTs).unlocked
  THEN [k \in DOMAIN map |-> NoEntry]
  ELSE map

\* isLocked counting the rejected submission of a locked e-mail as one more
\* failure
isLockedStore_CountsLocked(map, email, nowTs) ==
  IF isLocked(map, email, nowTs).unlocked
  THEN resetLoginAttempts(map, email)
  ELSE IF isLocked(map, email, nowTs).locked
  THEN recordFailedLogin(map, email, nowTs)
  ELSE map

\* the attempts map after isLocked(email): the expiry branch calls
\* resetLoginAttempts(email)
isLockedStore(map, email, nowTs) ==
  IF isLocked(map, email, nowTs).unlocked
  THEN resetLoginAttempts(map, email)
  ELSE map

(***************************************************************************)
(* Initial state: a browser with empty localStorage                        *)
(***************************************************************************)
NoLock == [key |-> "", locked |-> FALSE, remaining |-> 0, attempts |-> 0,
           unlocked |-> FALSE]

NoVerify == [called |-> FALSE, threw |-> FALSE, isValid |-> FALSE,
             tamperedItems |-> <<>>]

AbsentCart == [kind |-> "absent"]

NoUser == "null"

NoRedirect == [to |-> "none", delay |-> 0]

\* expireSessionIfNeeded: setTimeout(() => location.href = "logSign.html", 3000)
ExpiredRedirect == [to |-> "logSign", delay |-> 3000]

\* every key but 'cincoCart'
InitKeys ==
  /\ cincoUsers = <<>>
  /\ loginAttempts = [k \in Keys |-> NoEntry]
  /\ cincoSession = NoSession
  /\ sessionV1 = NoSession
  /\ users = <<>>
  /\ currentUser = NoUser
  /\ userSession = NoSession
  /\ failedAttempts = [e \in RawEmails |-> NoEntry]
  /\ cincoCoffeeCart = <<>>

InitStorage == InitKeys /\ cincoCart = AbsentCart

\* closure variables and timers of a freshly loaded page
InitTab ==
  /\ redirect = NoRedirect
  /\ now = StartTime
  /\ advances = 0
  /\ pending = <<>>
  /\ lastLock = NoLock
  /\ lastActivityTs = 0
  /\ lifecycle = "Anonymous"
  /\ idleFrom = StartTime
  /\ checksRun = {}
  /\ refreshWrites = <<>>
  /\ lastCheckAt = 0
  /\ checkoutSession = NoSession
  /\ orders = 0
  /\ successModal = FALSE
  /\ emptyNotices = 0
  /\ lastVerify = NoVerify
  /\ added = [u \in 1..MaxUsers |-> [b \in Buttons |-> 0]]
  /\ cartModal = <<>>
  /\ cart = <<>>

InitPage == InitTab /\ integrityBound = FALSE

(***************************************************************************)
(* The clock                                                               *)
(***************************************************************************)
\* a pending redirect replaces the page before its delay has passed
AdvanceTime(d) ==
  /\ advances < MaxAdvances
  /\ redirect = NoRedirect \/ d < redirect.delay
  /\ now' = now + d
  /\ advances' = advances + 1
  /\ UNCHANGED <<pageVars, limiterVars, sessionVars, ghostVars, cartVars,
                 checkoutVars, legacyVars>>

(***************************************************************************)
(* Rate limiter API as exposed on window -- part_001:2706-2712             *)
(***************************************************************************)
RecordFailedLoginCall(e) ==
  /\ getLoginStatus(loginAttempts, e).attempts < MaxAttempts
  /\ loginAttempts' = recordFailedLogin(loginAttempts, e, now)
  /\ UNCHANGED <<clockVars, pageVars, cincoUsers, pending, lastLock, sessionVars,
                 ghostVars, cartVars, checkoutVars, legacyVars>>

ResetLoginAttemptsCall(e) ==
  /\ loginAttempts' = resetLoginAttempts(loginAttempts, e)
  /\ UNCHANGED <<clockVars, pageVars, cincoUsers, pending, lastLock, sessionVars,
                 ghostVars, cartVars, checkoutVars, legacyVars>>

IsLockedCall(e) ==
  /\ lastLock' = [key |-> Lower(e)] @@ isLocked(loginAttempts, e, now)
  /\ loginAttempts' = isLockedStore(loginAttempts, e, now)
  /\ UNCHANGED <<clockVars, pageVars, cincoUsers, pending, sessionVars,
                 ghostVars, cartVars, checkoutVars, legacyVars>>

(***************************************************************************)
(* Signup -- part_001:799-905, 1224-1256                                   *)
(***************************************************************************)
\* users.find((u) => u.email === wanted): index of the first match, 0 if none
RECURSIVE FindUserFrom(_, _, _)
FindUserFrom(list, wanted, i) ==
  IF i > Len(list) THEN 0
  ELSE IF list[i].email = wanted THEN i
  ELSE FindUserFrom(list, wanted, i + 1)

FindUser(list, wanted) == FindUserFrom(list, wanted, 1)

\* the submit listener defers handleSignup by 300 ms; handleSignup checks
\* the e-mail against the stored users, hashes the password, pushes the
\* new user and writes 'cincoSession'
SIGNUP_DELAY_MS == 300

handleSignup(e, p) ==
  /\ page = "logSign"
  /\ Len(cincoUsers) < MaxUsers
  /\ advances < MaxAdvances
  /\ now' = now + SIGNUP_DELAY_MS
  /\ advances' = advances + 1
  /\ IF FindUser(cincoUsers, Lower(e)) # 0
     THEN UNCHANGED <<cincoUsers, cincoSession, ghostVars, redirect>>
     ELSE LET newUser == [id |-> now', email |-> e,
                          password |-> bcryptHash(p)]
          IN  /\ cincoUsers' = Append(cincoUsers, newUser)
              /\ cincoSession' = [userId |-> newUser.id, email |-> e,
                                  token |-> now']
              /\ redirect' = [to |-> "index", delay |-> 900]
              /\ lifecycle' = "Active"
              /\ idleFrom' = now'
              /\ checksRun' = {}
              /\ UNCHANGED traceVars
  /\ UNCHANGED <<page, loginAttempts, pending, lastLock, sessionV1,
                 lastActivityTs, cartVars, checkoutVars, legacyVars>>

(***************************************************************************)
(* Login form submit handler -- part_001:998-1220                          *)
(***************************************************************************)
\* first part, synchronous: the lock check; a submission that passes it
\* waits for executeRecaptcha("login")
LoginSubmit(e, p) ==
  /\ page = "logSign"
  /\ Len(pending) < MaxPending
  /\ LET lock == isLocked(loginAttempts, Lower(e), now)
     IN  /\ lastLock' = [key |-> Lower(e)] @@ lock
         /\ loginAttempts' = isLockedStore(loginAttempts, Lower(e), now)
         /\ pending' = IF lock.locked
                       THEN pending
                       ELSE Append(pending, [email |-> e, password |-> p])
  /\ UNCHANGED <<clockVars, pageVars, cincoUsers, sessionVars, ghostVars,
                 cartVars, checkoutVars, legacyVars>>

RemoveAt(seq, i) == SubSeq(seq, 1, i - 1) \o SubSeq(seq, i + 1, Len(seq))

\* what sendLogin(payload) decides against the account list, with
\* window.bcrypt loaded or not: "fail" shows "Email or password incorrect"
\* and records a failure, "ok" logs in.  Without the library the comparison
\* is skipped with a console warning and the login goes on
sendLoginFrom(list, payload, hasBcrypt) ==
  LET i == FindUser(list, payload.email)
  IN  IF i = 0
      THEN [result |-> "fail", user |-> 0, message |-> "incorrect"]
      ELSE IF hasBcrypt
              /\ ~bcryptCompareSync(payload.password, list[i].password)
      THEN [result |-> "fail", user |-> i, message |-> "incorrect"]
      ELSE [result |-> "ok", user |-> i, message |-> "welcome"]

\* sendLogin(payload) on a page where the bcrypt library has loaded
sendLogin(payload) ==
  LET r == sendLoginFrom(cincoUsers, payload, TRUE)
  IN  [result |-> r.result, user |-> r.user]

\* what the continuation answers for a payload, given the account list and
\* the attempts map at time t: the message shown, the attempts map it
\* stores and whether it logs in (user is the account's position)
loginResponse(list, attemptsMap, payload, recap, hasBcrypt, t) ==
  LET r == sendLoginFrom(list, payload, hasBcrypt)
      fails == recap = "rejected" \/ r.result = "fail"
  IN  [ok |-> ~fails,
       user |-> r.user,
       message |-> IF recap = "rejected" THEN "recaptcha" ELSE r.message,
       attempts |-> IF fails
                    THEN recordFailedLogin(attemptsMap, payload.email, t)
                    ELSE resetLoginAttempts(attemptsMap, payload.email)]

\* allCarts[userId] || []  (an array or a missing key has no such property)
userCartOf(store, uid) ==
  IF store.kind = "map" /\ uid \in DOMAIN store.carts
  THEN store.carts[uid]
  ELSE <<>>

\* rebuildCartModal(): what the modal shows afterwards, one
\* .remove-item-btn with data-idx = position - 1 per line of the cart of
\* the session's user ('cincoSession' first, SessionManager.get() as
\* fallback); no line without a session -- part_001:1611-1742
rebuildCartModal(store, cs, v1) ==
  LET session == IF cs # NoSession THEN cs ELSE v1
      userCart == userCartOf(store, session.userId)
  IN  IF session = NoSession THEN <<>>
      ELSE [i \in 1..Len(userCart) |-> userCart[i].id]

\* second part: the continuation after executeRecaptcha resolved.  recap is
\* the verdict of the optional window.verifyRecaptchaToken ("rejected" for
\* ok === false or score < 0.4, "null" when executeRecaptcha resolved null
\* and nothing was verified); hasBcrypt tells whether window.bcrypt loaded
LoginContinueWith(i, recap, hasBcrypt) ==
  /\ i \in 1..Len(pending)
  /\ LET payload == pending[i]
         r == loginResponse(cincoUsers, loginAttempts, payload, recap,
                            hasBcrypt, now)
     IN  /\ ~r.ok =>
               getLoginStatus(loginAttempts, payload.email).attempts
                 < MaxAttempts
         /\ pending' = RemoveAt(pending, i)
         /\ loginAttempts' = r.attempts
         /\ IF ~r.ok
            THEN UNCHANGED <<cincoSession, ghostVars, redirect, cartModal>>
            ELSE /\ cincoSession' = [userId |-> cincoUsers[r.user].id,
                                     email |-> cincoUsers[r.user].email,
                                     token |-> now]
                 \* onLoginSuccess: updateCartCount(), rebuildCartModal()
                 /\ cartModal' = rebuildCartModal(cincoCart, cincoSession',
                                                  sessionV1)
                 /\ redirect' = [to |-> "index", delay |-> 800]
                 /\ lifecycle' = "Active"
                 /\ idleFrom' = now
                 /\ checksRun' = {}
                 /\ UNCHANGED traceVars
  /\ UNCHANGED <<clockVars, page, cincoUsers, lastLock, sessionV1,
                 lastActivityTs, cincoCart, lastVerify, added, checkoutVars,
                 legacyVars>>

\* the continuation on a page where the bcrypt library has loaded
LoginContinue(i, recap) == LoginContinueWith(i, recap, TRUE)

(***************************************************************************)
(* SessionManager -- part_001:17-221                                       *)
(***************************************************************************)
\* SessionManager.create(input) for a session-like object, at time ts:
\* the record written under 'cinco_session_v1'
create(input, ts) ==
  [userId |-> input.userId, email |-> Lower(input.email),
   token |-> input.token, createdAt |-> ts, lastActivity |-> ts]

\* isValid() testing only that a record with a lastActivity exists
isValid_NoTimeout(s, t) ==
  IF s = NoSession \/ s.lastActivity = 0 THEN FALSE ELSE TRUE

\* SessionManager.isValid()
isValid(s, t) ==
  IF s = NoSession \/ s.lastActivity = 0 THEN FALSE
  ELSE t - s.lastActivity <= SESSION_TIMEOUT_MS

\* checkOnce(): the stored record after the check (expire -> clear)
checkOnce(s, t) ==
  IF s = NoSession THEN s
  ELSE IF t - s.lastActivity > SESSION_TIMEOUT_MS THEN NoSession
  ELSE s

(***************************************************************************)
(* Expiry over both session keys -- part_001:2597-2698                     *)
(***************************************************************************)
\* readAnySession(): 'cinco_session_v1' first, then 'cincoSession'
readAnySession(v1, cs) ==
  IF v1 # NoSession THEN v1 ELSE cs

\* getSessionTimestamp(session): ts || lastActivity || createdAt ||
\* updatedAt, 0 standing for null; a 'cincoSession' record has none of them
getSessionTimestamp(session) ==
  IF session = NoSession THEN 0
  ELSE IF "lastActivity" \in DOMAIN session /\ session.lastActivity # 0
  THEN session.lastActivity
  ELSE IF "createdAt" \in DOMAIN session THEN session.createdAt
  ELSE 0

\* expireSessionIfNeeded(): TRUE when it removes all session keys
expireSessionIfNeeded(v1, cs, t) ==
  LET found == readAnySession(v1, cs)
      ts == getSessionTimestamp(found)
  IN  IF found = NoSession THEN FALSE
      ELSE IF ts = 0 THEN FALSE
      ELSE t - ts > SESSION_TIMEOUT_MS

\* isUserLoggedIn() -- part_001:1443-1462
isUserLoggedIn(v1, cs, t) ==
  IF cs # NoSession THEN TRUE ELSE isValid(v1, t)

(***************************************************************************)
(* Page load: the script body and init() -- part_001:214-220, 2463-2582,   *)
(* 2786-2818                                                               *)
(***************************************************************************)
Pages == {"index", "logSign", "checkout", "productupdate"}

\* formAtScript: the checkout form is already in the document when the
\* script body runs (it depends on where the page includes the script)
PageLoad(p, formAtScript) ==
  LET v1a == checkOnce(sessionV1, now)            \* SessionManager.start()
      exp == expireSessionIfNeeded(v1a, cincoSession, now)   \* init()
      v1b == IF exp THEN NoSession ELSE v1a
      cs  == IF exp THEN NoSession ELSE cincoSession
      \* bindCheckoutForm.restoreSession / initCheckoutPage:
      \* SessionManager.set(JSON.parse(localStorage 'cincoSession'))
      v1c == IF cs # NoSession THEN create(cs, now) ELSE v1b
  IN  /\ page' = p
      /\ redirect' = IF exp THEN ExpiredRedirect ELSE NoRedirect
      /\ sessionV1' = v1c
      /\ cincoSession' = cs
      /\ lastActivityTs' = 0
      /\ pending' = <<>>
      /\ checkoutSession' = IF p = "checkout" THEN cs ELSE NoSession
      /\ integrityBound' = (p = "checkout" /\ formAtScript)
      /\ successModal' = FALSE
      /\ emptyNotices' = 0
      /\ lifecycle' = IF v1a # sessionV1 \/ exp THEN "Expired" ELSE lifecycle
      /\ idleFrom' = now
      /\ checksRun' = {}
      /\ refreshWrites' = <<>>
      /\ lastCheckAt' = 0
      /\ cartModal' = rebuildCartModal(cincoCart, cs, v1c)
      /\ UNCHANGED <<clockVars, cincoUsers, loginAttempts, lastLock, cincoCart,
                     lastVerify, added, orders, legacyVars>>

(***************************************************************************)
(* Activity, timers, logout                                                *)
(***************************************************************************)
\* the throttle test with the operands swapped: no event is ever throttled
throttled_Never(t, last) == last - t > ACTIVITY_THROTTLE_MS

\* if (t - lastActivityTs < ACTIVITY_THROTTLE_MS) return false
throttled(t, last) == t - last < ACTIVITY_THROTTLE_MS

\* refresh() returning true without storing the new lastActivity
touch_NotStored(s, t) == s

\* s.lastActivity = t; write(s)
touch(s, t) == [s EXCEPT !.lastActivity = t]

\* click / mousemove / keydown / touchstart -> SessionManager.refresh()
refresh ==
  /\ idleFrom' = now
  /\ checksRun' = {}
  /\ UNCHANGED <<lifecycle, lastCheckAt>>
  /\ IF throttled(now, lastActivityTs)
     THEN UNCHANGED <<lastActivityTs, sessionV1, refreshWrites>>
     ELSE /\ lastActivityTs' = now
          /\ IF sessionV1 = NoSession
             THEN UNCHANGED <<sessionV1, refreshWrites>>
             ELSE /\ sessionV1' = touch(sessionV1, now)
                  /\ refreshWrites' = Append(refreshWrites, now)
  /\ UNCHANGED <<clockVars, pageVars, limiterVars, cincoSession, cartVars,
                 checkoutVars, legacyVars>>

Overdue == now - idleFrom > SESSION_TIMEOUT_MS

\* setInterval(checkOnce, MONITOR_INTERVAL_MS)
checkOnceTick ==
  /\ sessionV1' = checkOnce(sessionV1, now)
  /\ lifecycle' = IF sessionV1' # sessionV1 THEN "Expired" ELSE lifecycle
  /\ checksRun' = IF Overdue THEN checksRun \cup {"checkOnce"} ELSE checksRun
  /\ lastCheckAt' = now
  /\ UNCHANGED <<clockVars, pageVars, limiterVars, cincoSession, lastActivityTs,
                 idleFrom, refreshWrites, cartVars, checkoutVars, legacyVars>>

\* setInterval(expireSessionIfNeeded, CHECK_MS): removeAllSessions()
expireSessionTick ==
  LET exp == expireSessionIfNeeded(sessionV1, cincoSession, now)
  IN  /\ sessionV1' = IF exp THEN NoSession ELSE sessionV1
      /\ cincoSession' = IF exp THEN NoSession ELSE cincoSession
      /\ redirect' = IF exp THEN ExpiredRedirect ELSE redirect
      /\ lifecycle' = IF exp THEN "Expired" ELSE lifecycle
      /\ checksRun' = IF Overdue
                      THEN checksRun \cup {"expireSessionIfNeeded"}
                      ELSE checksRun
      /\ lastCheckAt' = now
      /\ UNCHANGED <<clockVars, page, limiterVars, lastActivityTs, idleFrom,
                     refreshWrites, cartVars, checkoutVars, legacyVars>>

\* click on #logoutBtn -- part_001:1905-1939
Logout ==
  /\ cincoSession' = NoSession
  /\ cincoCart' = AbsentCart
  /\ added' = [u \in 1..MaxUsers |-> [b \in Buttons |-> 0]]
  /\ sessionV1' = NoSession
  /\ redirect' = [to |-> "index", delay |-> 500]
  /\ lifecycle' = "Anonymous"
  /\ UNCHANGED <<clockVars, page, limiterVars, lastActivityTs, idleFrom,
                 checksRun, traceVars, lastVerify, cartModal, checkoutSession,
                 integrityBound,
                 orders, successModal, emptyNotices, legacyVars>>

(***************************************************************************)
(* Cart store 'cincoCart' -- part_001:1464-1536, 1743-1762                 *)
(***************************************************************************)
\* allCarts[userId] = userCart; setItem("cincoCart", JSON.stringify(allCarts))
\* (JSON.stringify drops a named property set on an array)
setUserCart(store, uid, userCart) ==
  IF store.kind = "list" THEN store
  ELSE IF store.kind = "absent"
  THEN [kind |-> "map", carts |-> (uid :> userCart)]
  ELSE [kind |-> "map",
        carts |-> [k \in DOMAIN store.carts \cup {uid} |->
                     IF k = uid THEN userCart ELSE store.carts[k]]]

\* the whole store emptied instead of one user's entry
deleteUserCart_All(store, uid) ==
  IF store.kind = "list" THEN store
  ELSE [kind |-> "map", carts |-> <<>>]

\* delete allCarts[userId]; setItem("cincoCart", JSON.stringify(allCarts))
deleteUserCart(store, uid) ==
  IF store.kind = "list" THEN store
  ELSE IF store.kind = "absent"
  THEN [kind |-> "map", carts |-> <<>>]
  ELSE [kind |-> "map",
        carts |-> [k \in DOMAIN store.carts \ {uid} |-> store.carts[k]]]

\* userCart.find((p) => p.id === item.id): index of the first match, 0 if none
RECURSIVE FindLineFrom(_, _, _)
FindLineFrom(userCart, id, i) ==
  IF i > Len(userCart) THEN 0
  ELSE IF userCart[i].id = id THEN i
  ELSE FindLineFrom(userCart, id, i + 1)

\* addToCart merging by name only (the size left out of the identity)
mergeItem_ByName(userCart, item) ==
  LET hits == {i \in 1..Len(userCart) : userCart[i].name = item.name}
  IN  IF hits # {}
      THEN LET i == CHOOSE k \in hits : \A j \in hits : k <= j
           IN  [userCart EXCEPT ![i].qty = @ + item.qty]
      ELSE Append(userCart, item)

\* existing ? existing.qty += item.qty : userCart.push(item)
mergeItem(userCart, item) ==
  LET i == FindLineFrom(userCart, item.id, 1)
  IN  IF i # 0
      THEN [userCart EXCEPT ![i].qty = @ + item.qty]
      ELSE Append(userCart, item)

\* the session addToCart, updateCartCount and rebuildCartModal use:
\* 'cincoSession' first, SessionManager.get() as fallback
cartSession == IF cincoSession # NoSession THEN cincoSession ELSE sessionV1

\* position in 'cincoUsers' of the user with this id, 0 if none
UserIndex(uid) ==
  IF \E i \in 1..Len(cincoUsers) : cincoUsers[i].id = uid
  THEN CHOOSE i \in 1..Len(cincoUsers) : cincoUsers[i].id = uid
  ELSE 0

\* the product button a cart line came from
ButtonOf(line) == CHOOSE b \in Buttons : ItemId(b.words, b.size) = line.id

ProductPages == {"index", "productupdate"}

\* click on an .add-to-cart-btn: bindProductButtons builds the item from
\* the button's attributes and calls addToCart(item)
AddToCartClick(b) ==
  /\ page \in ProductPages
  /\ LET session == cartSession
         name == NameOf(b.words)
         item == [id |-> ItemId(b.words, b.size), name |-> name,
                  price |-> MENU_PRICES[name], qty |-> 1, size |-> b.size]
         userCart == userCartOf(cincoCart, session.userId)
         i == FindLineFrom(userCart, item.id, 1)
         u == UserIndex(session.userId)
     IN  IF session = NoSession
         THEN /\ redirect' = [to |-> "logSign", delay |-> 600]
              /\ UNCHANGED <<cincoCart, added, cartModal>>
         ELSE /\ IF i # 0 THEN userCart[i].qty < MaxQty
                          ELSE Len(userCart) < MaxLines
              /\ cincoCart' = setUserCart(cincoCart, session.userId,
                                          mergeItem(userCart, item))
              /\ added' = [added EXCEPT ![u][b] = @ + 1]
              /\ cartModal' = rebuildCartModal(cincoCart', cincoSession,
                                               sessionV1)
              /\ UNCHANGED redirect
  /\ UNCHANGED <<clockVars, page, limiterVars, sessionVars, ghostVars,
                 lastVerify, checkoutVars, legacyVars>>

\* removeFromCart(index): the store it leaves, session being what
\* SessionManager.get() returns; without that record it returns at once
removeFromCart(store, session, index) ==
  IF session = NoSession THEN store
  ELSE LET userCart == userCartOf(store, session.userId)
       IN  setUserCart(store, session.userId,
                       \* userCart.splice(index, 1): nothing goes when
                       \* index is past the end
                       IF index >= Len(userCart) THEN userCart
                       ELSE SubSeq(userCart, 1, index) \o
                            SubSeq(userCart, index + 2, Len(userCart)))

\* click on a .remove-item-btn of the cart modal: removeFromCart(idx), for
\* a line the modal shows
RemoveFromCartClick(idx) ==
  /\ page \in ProductPages
  /\ cartSession # NoSession
  /\ idx < Len(cartModal)
  /\ IF sessionV1 = NoSession
     THEN UNCHANGED <<cincoCart, added, cartModal>>
     ELSE LET userCart == userCartOf(cincoCart, sessionV1.userId)
              u == UserIndex(sessionV1.userId)
          IN  /\ cincoCart' = removeFromCart(cincoCart, sessionV1, idx)
              /\ added' = IF idx < Len(userCart)
                          THEN [added EXCEPT
                                  ![u][ButtonOf(userCart[idx + 1])] = 0]
                          ELSE added
              /\ cartModal' = rebuildCartModal(cincoCart', cincoSession,
                                               sessionV1)
  /\ UNCHANGED <<clockVars, pageVars, limiterVars, sessionVars, ghostVars,
                 lastVerify, checkoutVars, legacyVars>>

(***************************************************************************)
(* Cart integrity check -- part_001:2719-2818                              *)
(***************************************************************************)
\* MENU_PRICES[item.name]: <<price>>, or <<>> for undefined
legitimatePrice(name) ==
  IF name \in DOMAIN MENU_PRICES THEN <<MENU_PRICES[name]>> ELSE <<>>

\* the test of verifyCartIntegrity with < in place of !==
isTampered_Under(item) ==
  LET lp == legitimatePrice(item.name)
  IN  lp = <<>> \/ item.price <= 0 \/ item.price < lp[1]

\* !legitimatePrice || item.price <= 0 || item.price !== legitimatePrice
isTampered(item) ==
  LET lp == legitimatePrice(item.name)
  IN  lp = <<>> \/ lp[1] = 0 \/ item.price <= 0 \/ item.price # lp[1]

\* cart.forEach(...) over an array: cartValid and tamperedItems
RECURSIVE tamperedFrom(_, _)
tamperedFrom(lines, i) ==
  IF i > Len(lines) THEN <<>>
  ELSE IF isTampered(lines[i])
  THEN <<[item |-> lines[i].name, submittedPrice |-> lines[i].price,
          legitimatePrice |-> legitimatePrice(lines[i].name)]>>
       \o tamperedFrom(lines, i + 1)
  ELSE tamperedFrom(lines, i + 1)

\* verifyCartIntegrity() on what JSON.parse(getItem("cincoCart") || "[]")
\* yields: [] when the key is absent, the array when an array is stored;
\* the per-user object addToCart stores has no forEach, the call throws a
\* TypeError
verifyCartIntegrity(store) ==
  IF store.kind = "map"
  THEN [called |-> TRUE, threw |-> TRUE, isValid |-> FALSE,
        tamperedItems |-> <<>>]
  ELSE LET lines == IF store.kind = "absent" THEN <<>> ELSE store.lines
           tampered == tamperedFrom(lines, 1)
       IN  [called |-> TRUE, threw |-> FALSE, isValid |-> tampered = <<>>,
            tamperedItems |-> tampered]

(***************************************************************************)
(* Checkout form submit -- part_001:1999-2064, 2339-2383, 2786-2818        *)
(***************************************************************************)
\* one submit event runs every listener bound to #checkoutForm: the
\* integrity listener (it only returns, or ends with the TypeError), the
\* listener of bindCheckoutForm (session from SessionManager.get()) and the
\* listener of initCheckoutPage (session restored at page load)
CheckoutSubmit ==
  /\ page = "checkout"
  /\ LET uid2 == sessionV1.userId
         cart2 == IF sessionV1 = NoSession THEN <<>>
                  ELSE userCartOf(cincoCart, uid2)
         placed2 == cart2 # <<>>
         store2 == IF placed2 THEN deleteUserCart(cincoCart, uid2)
                   ELSE cincoCart
         uid3 == checkoutSession.userId
         cart3 == IF checkoutSession = NoSession THEN <<>>
                  ELSE userCartOf(store2, uid3)
         placed3 == cart3 # <<>>
         store3 == IF placed3 THEN deleteUserCart(store2, uid3) ELSE store2
         count(b1, b2) == (IF b1 THEN 1 ELSE 0) + (IF b2 THEN 1 ELSE 0)
         cleared == {u \in 1..MaxUsers :
                       \/ placed2 /\ u = UserIndex(uid2)
                       \/ placed3 /\ u = UserIndex(uid3)}
     IN  /\ lastVerify' = IF integrityBound
                          THEN verifyCartIntegrity(cincoCart)
                          ELSE lastVerify
         /\ orders' = count(placed2, placed3)
         /\ emptyNotices' = count(~placed2, ~placed3)
         /\ successModal' = (successModal \/ placed2 \/ placed3)
         /\ cincoCart' = store3
         /\ added' = [u \in 1..MaxUsers |->
                        IF u \in cleared THEN [b \in Buttons |-> 0]
                        ELSE added[u]]
         /\ redirect' = IF placed2 \/ placed3
                        THEN [to |-> "productupdate", delay |-> 2500]
                        ELSE redirect
  /\ UNCHANGED <<clockVars, page, limiterVars, sessionVars, ghostVars,
                 cartModal, checkoutSession, integrityBound, legacyVars>>

\* the visitor edits the stored cart in the browser's developer tools:
\* line i of the cart of user uid gets another price
TamperPrices == {10, 0, -50}

TamperPrice(uid, i, price) ==
  /\ cincoCart.kind = "map"
  /\ uid \in DOMAIN cincoCart.carts
  /\ i \in 1..Len(cincoCart.carts[uid])
  /\ cincoCart' = [cincoCart EXCEPT !.carts[uid][i].price = price]
  /\ UNCHANGED <<clockVars, pageVars, limiterVars, sessionVars, ghostVars,
                 lastVerify, added, cartModal, checkoutVars, legacyVars>>

(***************************************************************************)
(* Specification of the rate limiter API: the three functions called       *)
(* directly, in any order, while the clock moves                           *)
(***************************************************************************)
LimiterSteps == {1, LOCKOUT_MS}

InitLimiter == InitStorage /\ InitPage /\ page = "logSign"

NextLimiter ==
  \/ \E d \in LimiterSteps : AdvanceTime(d)
  \/ \E e \in RawEmails : RecordFailedLoginCall(e)
  \/ \E e \in RawEmails : ResetLoginAttemptsCall(e)
  \/ \E e \in RawEmails : IsLockedCall(e)

SpecLimiter == InitLimiter /\ [][NextLimiter]_vars

(***************************************************************************)
(* Specification of the login page: signup and login submissions           *)
(***************************************************************************)
LoginSteps == {LOCKOUT_MS}

\* the two spellings of one account's e-mail
LoginEmails == {"a@x.co", "A@x.co"}

NextLogin ==
  \/ \E d \in LoginSteps : AdvanceTime(d)
  \/ PageLoad("logSign", FALSE)
  \/ \E e \in LoginEmails, p \in Passwords : handleSignup(e, p)
  \/ \E e \in LoginEmails, p \in Passwords : LoginSubmit(e, p)
  \/ \E i \in 1..MaxPending, recap \in {"ok", "rejected"} :
        LoginContinue(i, recap)

SpecLogin == InitLimiter /\ [][NextLogin]_vars

(***************************************************************************)
(* Specification of one account's login form: the visitor types the        *)
(* e-mail with a capital letter, the attempts map is keyed in lower case   *)
(***************************************************************************)
ResetEmails == {"A@x.co"}

NextReset ==
  \/ \E d \in LoginSteps : AdvanceTime(d)
  \/ PageLoad("logSign", FALSE)
  \/ \E e \in ResetEmails, p \in Passwords : handleSignup(e, p)
  \/ \E e \in ResetEmails, p \in Passwords : LoginSubmit(e, p)
  \/ \E i \in 1..MaxPending, recap \in {"ok", "rejected"} :
        LoginContinue(i, recap)

SpecReset == InitLimiter /\ [][NextReset]_vars

(***************************************************************************)
(* Specification of the rate limiter API over two keys, the clock moving   *)
(* by whole lockout periods                                                *)
(***************************************************************************)
NextIsolation ==
  \/ \E d \in LoginSteps : AdvanceTime(d)
  \/ \E e \in RawEmails : RecordFailedLoginCall(e)
  \/ \E e \in RawEmails : ResetLoginAttemptsCall(e)
  \/ \E e \in RawEmails : IsLockedCall(e)

SpecIsolation == InitLimiter /\ [][NextIsolation]_vars

(***************************************************************************)
(* Properties of the rate limiter                                          *)
(***************************************************************************)
\* C1: once recordFailedLogin(e) has been called 5 times without a reset,
\* every isLocked(e) call made before lockedUntil (the time of the 5th call
\* plus LOCKOUT_MS) returns locked = true and leaves the entry alone; an
\* isLocked(e) call at or after lockedUntil returns locked = false with
\* attempts 0 and deletes the stored entry.
C1_LockedUntilElapsed ==
  [][\A e \in RawEmails :
       LET entry == getLoginStatus(loginAttempts, e)
       IN  (entry.attempts = MAX_LOGIN_ATTEMPTS /\ IsLockedCall(e)) =>
             IF now < entry.lastTs + LOCKOUT_MS
             THEN /\ lastLock'.locked
                  /\ lastLock'.remaining = entry.lastTs + LOCKOUT_MS - now
                  /\ loginAttempts' = loginAttempts
             ELSE /\ ~lastLock'.locked
                  /\ lastLock'.attempts = 0
                  /\ loginAttempts'[Lower(e)] = NoEntry
                  /\ getLoginStatus(loginAttempts', e).attempts = 0]_vars

\* an isLocked call found the lockout elapsed and removed the entry
C1_Witness ==
  /\ lastLock.unlocked
  /\ ~lastLock.locked
  /\ loginAttempts[lastLock.key] = NoEntry

C18_PerEmail ==
  [][/\ \A a \in RawEmails :
          (\/ RecordFailedLoginCall(a)
           \/ ResetLoginAttemptsCall(a)
           \/ IsLockedCall(a))
          => \A k \in Keys \ {Lower(a)} :
               loginAttempts'[k] = loginAttempts[k]
     /\ \A b \in RawEmails :
          getLoginStatus(loginAttempts', b).attempts < MAX_LOGIN_ATTEMPTS
          => ~isLocked(loginAttempts', b, now').locked]_vars

\* a@x.co is locked; b@x.co has one to four failures and its last
\* isLocked call reported it unlocked
C18_Witness ==
  /\ isLocked(loginAttempts, "a@x.co", now).locked
  /\ loginAttempts["b@x.co"] # NoEntry
  /\ loginAttempts["b@x.co"].attempts \in 1..(MAX_LOGIN_ATTEMPTS - 1)
  /\ lastLock.key = "b@x.co"
  /\ ~lastLock.locked
  /\ lastLock.attempts = loginAttempts["b@x.co"].attempts

\* C19 (as claimed): an e-mail is locked by its 5th failure only when the
\* five failures fall within one 15-minute window.
C19_WindowedLock ==
  \A k \in Keys :
    (/\ loginAttempts[k] # NoEntry
     /\ loginAttempts[k].attempts = MAX_LOGIN_ATTEMPTS
     /\ loginAttempts[k].lockedUntil # 0)
    => loginAttempts[k].lastTs - loginAttempts[k].firstTs <= LOCKOUT_MS

\* C9 (as claimed): a login submission whose continuation runs while its
\* e-mail is locked is rejected: no login succeeds for that e-mail, so no
\* session is written, while lockedUntil is in the future.
C9_RaceSafe ==
  [][\A i \in 1..Len(pending), recap \in {"ok", "rejected"} :
       (/\ isLocked(loginAttempts, pending[i].email, now).locked
        /\ LoginContinue(i, recap))
       => cincoSession' = cincoSession]_vars

(***************************************************************************)
(* Specification of the session lifecycle: signup, login, page loads,      *)
(* activity, the two periodic checks, logout                               *)
(***************************************************************************)
SessionSteps == {SESSION_TIMEOUT_MS, SESSION_TIMEOUT_MS + 1}

\* the visitors of this specification type their own credentials
SessionPasswords == {"pw-one-1"}

InitSession == InitStorage /\ InitPage /\ page = "logSign"

NextSession ==
  \/ \E d \in SessionSteps : AdvanceTime(d)
  \/ \E p \in Pages : PageLoad(p, TRUE)
  \/ \E e \in LoginEmails, p \in SessionPasswords : handleSignup(e, p)
  \/ \E i \in 1..MaxUsers, p \in SessionPasswords :
        i <= Len(cincoUsers) /\ LoginSubmit(cincoUsers[i].email, p)
  \/ \E i \in 1..MaxPending : LoginContinue(i, "ok")
  \/ refresh
  \/ checkOnceTick
  \/ expireSessionTick
  \/ Logout

SpecSession == InitSession /\ [][NextSession]_vars

\* C2 (as claimed): when no activity has occurred for longer than
\* SESSION_TIMEOUT_MS and both periodic checks (checkOnce and
\* expireSessionIfNeeded) have run since, the user is logged out: no
\* session record remains and isUserLoggedIn() is false.
C2_IdleLogout ==
  checksRun = {"checkOnce", "expireSessionIfNeeded"} =>
    /\ sessionV1 = NoSession
    /\ cincoSession = NoSession
    /\ ~isUserLoggedIn(sessionV1, cincoSession, now)

\* C10 (as claimed): after expiry detection or logout and until the next
\* login or signup, no session record exists and SessionManager.isValid()
\* and isUserLoggedIn() are false.
C10_Terminal ==
  lifecycle \in {"Expired", "Anonymous"} =>
    /\ sessionV1 = NoSession
    /\ cincoSession = NoSession
    /\ ~isValid(sessionV1, now)
    /\ ~isUserLoggedIn(sessionV1, cincoSession, now)

\* C12 (as claimed): every 'cincoSession' record a login or signup leaves
\* in storage carries createdAt and lastActivity timestamps, the time of
\* the login, so that the expiry check finds a timestamp on it.
C12_SessionTimestamps ==
  cincoSession # NoSession =>
    /\ "createdAt" \in DOMAIN cincoSession
    /\ "lastActivity" \in DOMAIN cincoSession
    /\ getSessionTimestamp(cincoSession) # 0

(***************************************************************************)
(* Specification of activity tracking: a visitor who signed up and was     *)
(* redirected to index.html; activity events, page loads and the two       *)
(* periodic checks, while the clock moves                                  *)
(***************************************************************************)
ActivitySteps ==
  {ACTIVITY_THROTTLE_MS - 1, ACTIVITY_THROTTLE_MS,
   SESSION_TIMEOUT_MS - ACTIVITY_THROTTLE_MS - 1}

\* the records handleSignup wrote, and 'cinco_session_v1' as restoreSession
\* created it when index.html loaded
SignedUpSession ==
  [userId |-> StartTime, email |-> "a@x.co", token |-> StartTime]

InitActive ==
  /\ cincoUsers = <<[id |-> StartTime, email |-> "a@x.co",
                     password |-> bcryptHash("pw-one-1")]>>
  /\ loginAttempts = [k \in Keys |-> NoEntry]
  /\ cincoSession = SignedUpSession
  /\ sessionV1 = create(SignedUpSession, StartTime)
  /\ users = <<>>
  /\ currentUser = NoUser
  /\ userSession = NoSession
  /\ failedAttempts = [e \in RawEmails |-> NoEntry]
  /\ cincoCoffeeCart = <<>>
  /\ cincoCart = AbsentCart
  /\ page = "index"
  /\ redirect = NoRedirect
  /\ now = StartTime
  /\ advances = 0
  /\ pending = <<>>
  /\ lastLock = NoLock
  /\ lastActivityTs = 0
  /\ lifecycle = "Active"
  /\ idleFrom = StartTime
  /\ checksRun = {}
  /\ refreshWrites = <<>>
  /\ lastCheckAt = 0
  /\ checkoutSession = NoSession
  /\ integrityBound = FALSE
  /\ orders = 0
  /\ successModal = FALSE
  /\ emptyNotices = 0
  /\ lastVerify = NoVerify
  /\ added = [u \in 1..MaxUsers |-> [b \in Buttons |-> 0]]
  /\ cartModal = <<>>
  /\ cart = <<>>

NextActivity ==
  \/ \E d \in ActivitySteps : AdvanceTime(d)
  \/ \E p \in ProductPages : PageLoad(p, TRUE)
  \/ refresh
  \/ checkOnceTick
  \/ expireSessionTick

SpecActivity == InitActive /\ [][NextActivity]_vars

\* C15: within one page, any two refresh() calls that returned true (and
\* wrote lastActivity) are at least ACTIVITY_THROTTLE_MS apart, so a
\* 5-second window holds at most one session write.
C15_Throttled ==
  \A i, j \in 1..Len(refreshWrites) :
    i < j => refreshWrites[j] - refreshWrites[i] >= ACTIVITY_THROTTLE_MS

\* a second write exactly ACTIVITY_THROTTLE_MS after the first
C15_Witness ==
  /\ Len(refreshWrites) >= 2
  /\ refreshWrites[2] - refreshWrites[1] = ACTIVITY_THROTTLE_MS
  /\ sessionV1.lastActivity = refreshWrites[2]

\* C16: a periodic check (checkOnce or expireSessionIfNeeded) that runs
\* less than SESSION_TIMEOUT_MS - ACTIVITY_THROTTLE_MS after the last
\* activity event removes no session record.
C16_ActiveNotExpired ==
  [][(/\ checkOnceTick \/ expireSessionTick
      /\ now - idleFrom < SESSION_TIMEOUT_MS - ACTIVITY_THROTTLE_MS)
     => /\ sessionV1' = sessionV1
        /\ cincoSession' = cincoSession]_vars

\* a check has just run on a session older than the timeout that activity
\* kept alive
C16_Witness ==
  /\ lastCheckAt = now
  /\ lifecycle = "Active"
  /\ sessionV1 # NoSession
  /\ cincoSession # NoSession
  /\ now - sessionV1.createdAt > SESSION_TIMEOUT_MS
  /\ Len(refreshWrites) >= 2

(***************************************************************************)
(* Specification of the cart: signup, page loads, add and remove clicks,   *)
(* checkout, logout, while the clock moves                                 *)
(***************************************************************************)
CartSteps == {SESSION_TIMEOUT_MS + 1}

\* one visitor's account
CartEmails == {"a@x.co"}

InitCart == InitStorage /\ InitPage /\ page = "logSign"

NextCart ==
  \/ \E d \in CartSteps : AdvanceTime(d)
  \/ \E p \in Pages : PageLoad(p, TRUE)
  \/ \E e \in CartEmails, p \in SessionPasswords : handleSignup(e, p)
  \/ \E i \in 1..MaxUsers, p \in SessionPasswords :
        i <= Len(cincoUsers) /\ LoginSubmit(cincoUsers[i].email, p)
  \/ \E i \in 1..MaxPending : LoginContinue(i, "ok")
  \/ \E b \in Buttons : AddToCartClick(b)
  \/ \E idx \in 0..(MaxLines - 1) : RemoveFromCartClick(idx)
  \/ CheckoutSubmit
  \/ Logout

SpecCart == InitCart /\ [][NextCart]_vars

C6_LegitCartAccepted ==
  [][(/\ CheckoutSubmit
      /\ integrityBound
      /\ userCartOf(cincoCart, cartSession.userId) # <<>>)
     => /\ ~lastVerify'.threw
        /\ lastVerify'.isValid
        /\ lastVerify'.tamperedItems = <<>>
        /\ orders' >= 1]_vars

\* C8 (as claimed): an addToCart call made without an active session (a
\* session record whose last activity is at most 30 minutes ago) leaves the
\* stored cart unchanged and sends the visitor to the login page.
C8_ActiveSessionRequired ==
  [][\A b \in Buttons :
       LET active == /\ cartSession # NoSession
                     /\ now - idleFrom <= SESSION_TIMEOUT_MS
       IN  (AddToCartClick(b) /\ ~active)
           => /\ cincoCart' = cincoCart
              /\ redirect'.to = "logSign"]_vars

(***************************************************************************)
(* Specification of expiry with a filled cart: signup, page loads, add     *)
(* clicks and the two periodic checks, while the clock moves               *)
(***************************************************************************)
NextExpiry ==
  \/ \E d \in CartSteps : AdvanceTime(d)
  \/ \E p \in Pages : PageLoad(p, TRUE)
  \/ \E e \in CartEmails, p \in SessionPasswords : handleSignup(e, p)
  \/ \E b \in Buttons : AddToCartClick(b)
  \/ checkOnceTick
  \/ expireSessionTick

SpecExpiry == InitCart /\ [][NextExpiry]_vars

\* C11 (as claimed): a periodic check that detects inactivity beyond the
\* timeout and removes a session record removes, in the same step, the
\* cart of that session's user from 'cincoCart'.
C11_ExpiryClearsCart ==
  [][LET expired == readAnySession(sessionV1, cincoSession)
     IN  (/\ checkOnceTick \/ expireSessionTick
          /\ sessionV1' # sessionV1 \/ cincoSession' # cincoSession)
         => userCartOf(cincoCart', expired.userId) = <<>>]_vars

(***************************************************************************)
(* Specification of checkout with an edited cart                           *)
(***************************************************************************)
NextTamper ==
  \/ \E p \in Pages : PageLoad(p, TRUE)
  \/ \E e \in CartEmails, p \in SessionPasswords : handleSignup(e, p)
  \/ \E b \in Buttons : AddToCartClick(b)
  \/ \E i \in 1..MaxUsers, k \in 1..MaxLines, price \in TamperPrices :
        i <= Len(cincoUsers) /\ TamperPrice(cincoUsers[i].id, k, price)
  \/ CheckoutSubmit

SpecTamper == InitCart /\ [][NextTamper]_vars

\* C3 (as claimed): a submit of the checkout form while the current user's
\* cart holds an offending line (unknown name, non-positive price, or a
\* price other than the table's) places no order: no order number, no
\* success modal, the stored cart unchanged.
C3_TamperedRejected ==
  [][LET lines == userCartOf(cincoCart, cartSession.userId)
         offending(l) == \/ l.name \notin DOMAIN MENU_PRICES
                         \/ l.price <= 0
                         \/ l.price # MENU_PRICES[l.name]
     IN  (CheckoutSubmit /\ \E i \in 1..Len(lines) : offending(lines[i]))
         => /\ orders' = 0
            /\ ~successModal'
            /\ cincoCart' = cincoCart]_vars

(***************************************************************************)
(* Specification of the integrity check on carts stored as arrays          *)
(***************************************************************************)
VerifyNames == {"Americano", "White Choco Mocha", "Fake Product"}

VerifyPrices == {70, 100, 10, 0, -50}

\* lines of a stored array
MaxLen == 2

VerifyLines == [name : VerifyNames, price : VerifyPrices]

InitVerify ==
  /\ InitKeys
  /\ InitTab
  /\ page = "checkout"
  /\ integrityBound = TRUE
  /\ \E n \in 0..MaxLen :
       \E lines \in [1..n -> VerifyLines] :
         cincoCart = [kind |-> "list", lines |-> lines]

NextVerify == CheckoutSubmit

SpecVerify == InitVerify /\ [][NextVerify]_vars

\* C5: for a cart stored as an array, verifyCartIntegrity returns isValid
\* = true exactly when every line's name is in MENU_PRICES and its price is
\* positive and equal to the table price; tamperedItems holds, in cart
\* order, one entry {item, submittedPrice, legitimatePrice} per offending
\* line and nothing else.
C5_VerifyExact ==
  (lastVerify.called /\ cincoCart.kind = "list") =>
    LET lines == cincoCart.lines
        Legit(l) == /\ l.name \in DOMAIN MENU_PRICES
                    /\ l.price > 0
                    /\ l.price = MENU_PRICES[l.name]
        bad == {i \in 1..Len(lines) : ~Legit(lines[i])}
        t == lastVerify.tamperedItems
    IN  /\ ~lastVerify.threw
        /\ lastVerify.isValid <=> (bad = {})
        /\ Len(t) = Cardinality(bad)
        /\ \A i \in bad :
             t[Cardinality({j \in bad : j <= i})] =
               [item |-> lines[i].name,
                submittedPrice |-> lines[i].price,
                legitimatePrice |->
                  IF lines[i].name \in DOMAIN MENU_PRICES
                  THEN <<MENU_PRICES[lines[i].name]>> ELSE <<>>]

\* a two-line array, the first line legitimate, the second reported
C5_Witness ==
  /\ lastVerify.called
  /\ cincoCart.kind = "list"
  /\ Len(cincoCart.lines) = 2
  /\ ~lastVerify.isValid
  /\ Len(lastVerify.tamperedItems) = 1
  /\ lastVerify.tamperedItems[1].item = cincoCart.lines[2].name

(***************************************************************************)
(* The older script, src/cincoscript.js: one cart for the whole browser    *)
(***************************************************************************)
\* getFailedAttempts(email) on a stored value: the record or the default
getFailedAttempts(stored) ==
  IF stored # NoEntry THEN stored
  ELSE [count |-> 0, timestamp |-> 0, lockedUntil |-> 0]

\* recordFailedAttempt(email): the record it saves
recordFailedAttempt(stored) ==
  LET a == [getFailedAttempts(stored) EXCEPT !.count = @ + 1,
                                             !.timestamp = now]
  IN  IF a.count >= MAX_LOGIN_ATTEMPTS
      THEN [a EXCEPT !.lockedUntil = now + LOCKOUT_MS]
      ELSE a

\* isAccountLocked(email)
isAccountLocked(email) ==
  LET a == getFailedAttempts(failedAttempts[email])
  IN  a.lockedUntil # 0 /\ ~(now > a.lockedUntil)

\* the stored value after isAccountLocked(email): an elapsed lockout is
\* removed by the call
afterLockCheck(email) ==
  LET a == getFailedAttempts(failedAttempts[email])
  IN  IF a.lockedUntil # 0 /\ now > a.lockedUntil THEN NoEntry
      ELSE failedAttempts[email]

\* createSession(email)
createSession(email) ==
  [email |-> email, token |-> now, createdAt |-> now, lastActivityAt |-> now,
   expiresAt |-> now + SESSION_TIMEOUT_MS, isActive |-> TRUE]

\* isSessionValid() on the stored 'userSession' record, at time t
isSessionValid(session, t) ==
  IF session = NoSession \/ ~session.isActive THEN FALSE
  ELSE IF t > session.expiresAt THEN FALSE
  ELSE IF t - session.lastActivityAt > SESSION_TIMEOUT_MS THEN FALSE
  ELSE TRUE

\* Object.keys(users).find((k) => k.toLowerCase() === email.toLowerCase())
emailKeys(email) == {k \in DOMAIN users : Lower(k) = Lower(email)}

LegacyEmails == {"a@x.co", "b@x.co"}

\* signupForm submit listener, for well-formed input and a reCAPTCHA token
LegacySignup(email, password) ==
  /\ page = "logSign"
  /\ IF isAccountLocked(email)
     THEN UNCHANGED <<users, currentUser, userSession, failedAttempts,
                      redirect>>
     ELSE IF emailKeys(email) # {}
     THEN /\ getFailedAttempts(afterLockCheck(email)).count < MaxAttempts
          /\ failedAttempts' =
               [failedAttempts EXCEPT
                  ![email] = recordFailedAttempt(afterLockCheck(email))]
          /\ UNCHANGED <<users, currentUser, userSession, redirect>>
     ELSE /\ users' = [k \in DOMAIN users \cup {email} |->
                         IF k = email
                         THEN [password |-> bcryptHash(password)]
                         ELSE users[k]]
          /\ failedAttempts' = [failedAttempts EXCEPT ![email] = NoEntry]
          /\ userSession' = createSession(email)
          /\ currentUser' = email
          /\ redirect' = [to |-> "index", delay |-> 900]
  /\ UNCHANGED <<clockVars, page, limiterVars, sessionVars, ghostVars,
                 cartVars, checkoutVars, cincoCoffeeCart, cart>>

\* executeRecaptcha("login") of the older script: "token" when grecaptcha
\* delivered one, "none" when grecaptcha is not loaded (it resolves
\* {token: null}), "rejects" when grecaptcha.execute failed (it rejects)
LegacyRecaptcha == {"token", "none", "rejects"}

\* what the loginForm submit listener leaves in storage, for well-formed
\* input: the lock check comes first and returns at once; without a token
\* the handler shows "reCAPTCHA verification failed" (or, on a rejection,
\* "An error occurred during login"), records a failed attempt and returns;
\* otherwise the credential check decides.  recorded tells whether
\* recordFailedAttempt was called
legacyLoginResult(email, password, recaptcha) ==
  LET same == [failedAttempts |-> failedAttempts,
               userSession |-> userSession,
               currentUser |-> currentUser,
               redirect |-> redirect,
               recorded |-> FALSE]
      failed == [same EXCEPT
                   !.failedAttempts =
                      [failedAttempts EXCEPT
                         ![email] = recordFailedAttempt(afterLockCheck(email))],
                   !.recorded = TRUE]
      found == emailKeys(email)
      emailKey == CHOOSE k \in found : TRUE
  IN  IF isAccountLocked(email) THEN same
      ELSE IF recaptcha # "token" THEN failed
      ELSE IF found # {} /\
              bcryptCompareSync(password, users[emailKey].password)
      THEN [failedAttempts |-> [failedAttempts EXCEPT ![email] = NoEntry],
            userSession |-> createSession(emailKey),
            currentUser |-> emailKey,
            redirect |-> [to |-> "index", delay |-> 600],
            recorded |-> FALSE]
      ELSE failed

\* loginForm submit listener
LegacyLoginWith(email, password, recaptcha) ==
  /\ page = "logSign"
  /\ LET r == legacyLoginResult(email, password, recaptcha)
     IN  /\ r.recorded =>
               getFailedAttempts(afterLockCheck(email)).count < MaxAttempts
         /\ failedAttempts' = r.failedAttempts
         /\ userSession' = r.userSession
         /\ currentUser' = r.currentUser
         /\ redirect' = r.redirect
  /\ UNCHANGED <<clockVars, page, limiterVars, sessionVars, ghostVars,
                 cartVars, checkoutVars, users, cincoCoffeeCart, cart>>

\* the listener when grecaptcha delivered a token
LegacyLogin(email, password) == LegacyLoginWith(email, password, "token")

\* a page of the site loads: initCart() reads the stored cart
LegacyPageLoad(p) ==
  /\ page' = p
  /\ redirect' = NoRedirect
  /\ cart' = cincoCoffeeCart
  /\ UNCHANGED <<clockVars, limiterVars, sessionVars, ghostVars, cartVars,
                 checkoutVars, users, currentUser, userSession,
                 failedAttempts, cincoCoffeeCart>>

\* cart.find((item) => item.name === product.name &&
\*                     item.size === product.size), then += 1 or push;
\* addedBy is not a field of the program: it records the user logged in
\* when the line was pushed
legacyMerge(list, product) ==
  LET hits == {i \in 1..Len(list) :
                 list[i].name = product.name /\ list[i].size = product.size}
  IN  IF hits # {}
      THEN LET i == CHOOSE k \in hits : \A j \in hits : k <= j
           IN  [list EXCEPT ![i].quantity = @ + 1]
      ELSE Append(list, product)

\* click on an add-to-cart button: login check of initAddToCartButtons,
\* then addToCart(e)
LegacyAddToCartClick(b, goToAuth) ==
  /\ page \in ProductPages
  /\ IF currentUser = NoUser
     THEN /\ redirect' = IF goToAuth THEN [to |-> "logSign", delay |-> 0]
                         ELSE redirect
          /\ UNCHANGED <<cart, cincoCoffeeCart>>
     ELSE LET name == NameOf(b.words)
              product == [name |-> name, price |-> MENU_PRICES[name],
                          size |-> b.size, quantity |-> 1,
                          addedBy |-> currentUser]
              merged == legacyMerge(cart, product)
          IN  /\ Len(merged) <= MaxLines
              /\ \A i \in 1..Len(merged) : merged[i].quantity <= MaxQty
              /\ cart' = merged
              /\ cincoCoffeeCart' = merged
              /\ UNCHANGED redirect
  /\ UNCHANGED <<clockVars, page, limiterVars, sessionVars, ghostVars,
                 cartVars, checkoutVars, users, currentUser, userSession,
                 failedAttempts>>

\* removeItem(e): cart.splice(index, 1) and save
LegacyRemoveItem(index) ==
  /\ page \in ProductPages
  /\ index < Len(cart)
  /\ cart' = SubSeq(cart, 1, index) \o SubSeq(cart, index + 2, Len(cart))
  /\ cincoCoffeeCart' = cart'
  /\ UNCHANGED <<clockVars, pageVars, limiterVars, sessionVars, ghostVars,
                 cartVars, checkoutVars, users, currentUser, userSession,
                 failedAttempts>>

\* handleLogout() once confirmed: 'currentUser' and the cart are removed
\* and index.html is loaded
LegacyLogout ==
  /\ currentUser # NoUser
  /\ currentUser' = NoUser
  /\ cincoCoffeeCart' = <<>>
  /\ cart' = <<>>
  /\ page' = "index"
  /\ redirect' = NoRedirect
  /\ UNCHANGED <<clockVars, limiterVars, sessionVars, ghostVars, cartVars,
                 checkoutVars, users, userSession, failedAttempts>>

\* logoutUser(), as the click listener of the logout button calls it: the
\* session, 'currentUser' and the stored cart are removed and logSign.html
\* is loaded unless it is the page already shown
logoutUser ==
  /\ userSession # NoSession \/ currentUser # NoUser
  /\ userSession' = NoSession
  /\ currentUser' = NoUser
  /\ cincoCoffeeCart' = <<>>
  /\ cart' = IF page = "logSign" THEN cart ELSE <<>>
  /\ page' = "logSign"
  /\ redirect' = IF page = "logSign" THEN redirect ELSE NoRedirect
  /\ UNCHANGED <<clockVars, limiterVars, sessionVars, ghostVars, cartVars,
                 checkoutVars, users, failedAttempts>>

(***************************************************************************)
(* Specification of the older script's cart                                *)
(***************************************************************************)
NextLegacy ==
  \/ \E e \in LegacyEmails, p \in Passwords : LegacySignup(e, p)
  \/ \E e \in LegacyEmails, p \in Passwords : LegacyLogin(e, p)
  \/ \E p \in Pages : LegacyPageLoad(p)
  \/ \E b \in Buttons, goToAuth \in BOOLEAN : LegacyAddToCartClick(b, goToAuth)
  \/ \E index \in 0..(MaxLines - 1) : LegacyRemoveItem(index)
  \/ LegacyLogout

SpecLegacy == InitCart /\ [][NextLegacy]_vars

\* C7 (as claimed), for the cart of cincoscript.js: every line of the cart
\* a logged-in user sees was added under that user's own session.
C7_CartNotShared ==
  currentUser # NoUser =>
    \A i \in 1..Len(cart) : cart[i].addedBy = currentUser

(***************************************************************************)
(* Specification of the validity predicates of both scripts: sessions are  *)
(* created by signup and login, refreshed by activity, and age             *)
(***************************************************************************)
NextValidity ==
  \/ \E d \in SessionSteps : AdvanceTime(d)
  \/ \E p \in Pages : PageLoad(p, TRUE)
  \/ \E e \in CartEmails, p \in SessionPasswords : handleSignup(e, p)
  \/ refresh
  \/ \E e \in CartEmails, p \in Passwords : LegacySignup(e, p)
  \/ \E e \in CartEmails, p \in Passwords : LegacyLogin(e, p)

SpecValidity == InitCart /\ [][NextValidity]_vars

\* C13 (as claimed): SessionManager.isValid and isSessionValid return true
\* only while the time since the last activity is strictly less than the
\* timeout.
C13_StrictTimeout ==
  /\ isValid(sessionV1, now) =>
       now - sessionV1.lastActivity < SESSION_TIMEOUT_MS
  /\ isSessionValid(userSession, now) =>
       now - userSession.lastActivityAt < SESSION_TIMEOUT_MS

\* C13 (amended): for every stored session, SessionManager.isValid and
\* isSessionValid return true exactly while the time since the last
\* activity is at most the timeout: a session idle for exactly 30 minutes
\* is still valid, one idle for 30 minutes and 1 ms is not.
C13_ValidWithinTimeout ==
  /\ sessionV1 # NoSession =>
       (isValid(sessionV1, now) <=>
          now - sessionV1.lastActivity <= SESSION_TIMEOUT_MS)
  /\ userSession # NoSession =>
       (isSessionValid(userSession, now) <=>
          now - userSession.lastActivityAt <= SESSION_TIMEOUT_MS)

\* both records are exactly 30 minutes idle and both are reported valid
C13_Witness ==
  /\ isValid(sessionV1, now)
  /\ now - sessionV1.lastActivity = SESSION_TIMEOUT_MS
  /\ isSessionValid(userSession, now)
  /\ now - userSession.lastActivityAt = SESSION_TIMEOUT_MS

(***************************************************************************)
(* Specification of the lock predicates of both scripts: failures are      *)
(* recorded by the part_001 limiter and by the login and signup forms of   *)
(* cincoscript.js, while the clock moves                                   *)
(***************************************************************************)
LockPages == {"index", "logSign"}

NextLock ==
  \/ \E d \in LimiterSteps : AdvanceTime(d)
  \/ \E e \in CartEmails : RecordFailedLoginCall(e)
  \/ \E e \in CartEmails : IsLockedCall(e)
  \/ \E e \in CartEmails, p \in Passwords : LegacySignup(e, p)
  \/ \E e \in CartEmails, p \in Passwords : LegacyLogin(e, p)
  \/ \E p \in LockPages : LegacyPageLoad(p)

SpecLock == InitCart /\ [][NextLock]_vars

\* C14 (as claimed): isLocked(email).locked and isAccountLocked(email) are
\* true only at times strictly before lockedUntil of the e-mail's stored
\* record; at lockedUntil itself the account is reported unlocked.
C14_LockedOnlyBefore ==
  \A e \in RawEmails :
    /\ isLocked(loginAttempts, e, now).locked =>
         now < getLoginStatus(loginAttempts, e).lockedUntil
    /\ isAccountLocked(e) =>
         now < getFailedAttempts(failedAttempts[e]).lockedUntil

(***************************************************************************)
(* Specification of the signup forms alone: no login is attempted          *)
(***************************************************************************)
NextSignup ==
  \/ \E d \in LoginSteps : AdvanceTime(d)
  \/ \E e \in LoginEmails, p \in Passwords : handleSignup(e, p)
  \/ PageLoad("logSign", FALSE)
  \/ \E e \in CartEmails, p \in Passwords : LegacySignup(e, p)
  \/ LegacyPageLoad("logSign")

SpecSignup == InitCart /\ [][NextSignup]_vars

\* C20 (as claimed): while no login is attempted, no operation, a rejected
\* signup submission included, increments an e-mail's failed-attempt
\* record or locks the e-mail.
C20_SignupLeavesRecord ==
  [][\A e \in RawEmails :
       LET before == getFailedAttempts(failedAttempts[e])
           after == getFailedAttempts(failedAttempts'[e])
       IN  /\ after.count <= before.count
           /\ after.lockedUntil \in {0, before.lockedUntil}
           /\ getLoginStatus(loginAttempts', e).attempts
                <= getLoginStatus(loginAttempts, e).attempts]_vars


(***************************************************************************)
(* Specification of the login form with its two outside dependencies: the  *)
(* reCAPTCHA verdict ("null" when no token could be obtained) and the      *)
(* bcrypt library, which may or may not have loaded                        *)
(***************************************************************************)
RecaptchaVerdicts == {"ok", "rejected", "null"}

NextAuth ==
  \/ \E d \in LoginSteps : AdvanceTime(d)
  \/ PageLoad("logSign", FALSE)
  \/ \E e \in CartEmails, p \in Passwords : handleSignup(e, p)
  \/ \E e \in CartEmails, p \in Passwords : LoginSubmit(e, p)
  \/ \E i \in 1..MaxPending, recap \in RecaptchaVerdicts,
         hasBcrypt \in BOOLEAN :
        LoginContinueWith(i, recap, hasBcrypt)

SpecAuth == InitLimiter /\ [][NextAuth]_vars

\* C21: a login continuation writes a session record only when the
\* submitted e-mail has an account and the submitted password compares
\* equal to that account's stored hash; in every other case no session is
\* written
C21_SessionOnlyAfterCompare ==
  [][\A i \in 1..MaxPending, recap \in RecaptchaVerdicts,
        hasBcrypt \in BOOLEAN :
        (LoginContinueWith(i, recap, hasBcrypt)
           /\ cincoSession' # cincoSession)
          => LET u == FindUser(cincoUsers, pending[i].email)
             IN  /\ u # 0
                 /\ bcryptCompareSync(pending[i].password,
                                      cincoUsers[u].password)]_vars


(***************************************************************************)
(* Specification of the older script's login form while reCAPTCHA is out   *)
(* of service: no token is ever obtained.  The visitor signs up as a@x.co  *)
(* and logs in typing A@x.co                                               *)
(***************************************************************************)
NextOutage ==
  \/ \E d \in LoginSteps : AdvanceTime(d)
  \/ LegacyPageLoad("logSign")
  \/ \E e \in CartEmails, p \in Passwords : LegacySignup(e, p)
  \/ \E e \in ResetEmails, p \in Passwords,
         r \in LegacyRecaptcha \ {"token"} : LegacyLoginWith(e, p, r)

SpecOutage == InitLimiter /\ [][NextOutage]_vars

\* C22: when no reCAPTCHA token can be obtained, a login with the right
\* password of a registered, unlocked account still goes through the
\* credential check and succeeds: a session is written and the outage
\* records no failed attempt, in either script
C22_OutageRecordsNoFailure ==
  [][/\ \A i \in 1..MaxPending :
          (LoginContinueWith(i, "null", TRUE)
             /\ sendLogin(pending[i]).result = "ok")
            => /\ loginAttempts' =
                    resetLoginAttempts(loginAttempts, pending[i].email)
               /\ cincoSession' # NoSession
               /\ cincoSession'.email = pending[i].email
     /\ \A e \in ResetEmails, p \in Passwords,
           r \in LegacyRecaptcha \ {"token"} :
          (/\ LegacyLoginWith(e, p, r)
           /\ ~isAccountLocked(e)
           /\ emailKeys(e) # {}
           /\ \A k \in emailKeys(e) :
                 bcryptCompareSync(p, users[k].password))
            => /\ failedAttempts'[e] = NoEntry
               /\ userSession' # NoSession]_vars


\* the account list as it would be had e-mail e never signed up
withoutAccount(list, e) ==
  SelectSeq(list, LAMBDA u : u.email # e)

\* C23: a login with a registered e-mail and a wrong password is answered
\* exactly like the same login would be were the e-mail not registered: the
\* same message and the same change of the attempts map
C23_NoEnumeration ==
  \A e \in CartEmails, p \in Passwords, recap \in RecaptchaVerdicts,
     hasBcrypt \in BOOLEAN :
    LET payload == [email |-> e, password |-> p]
        u == FindUser(cincoUsers, e)
        known == loginResponse(cincoUsers, loginAttempts, payload, recap,
                               hasBcrypt, now)
        unknown == loginResponse(withoutAccount(cincoUsers, e),
                                 loginAttempts, payload, recap, hasBcrypt,
                                 now)
    IN  (u # 0 /\ ~bcryptCompareSync(p, cincoUsers[u].password))
          => /\ known.message = unknown.message
             /\ known.attempts = unknown.attempts
             /\ known.ok = unknown.ok


\* C24: no two stored accounts have e-mails that are equal when letter case
\* is ignored, in the account list of either script
C24_UniqueEmails ==
  /\ \A i, j \in 1..Len(cincoUsers) :
        i # j => Lower(cincoUsers[i].email) # Lower(cincoUsers[j].email)
  /\ \A k1, k2 \in DOMAIN users :
        k1 # k2 => Lower(k1) # Lower(k2)


(***************************************************************************)
(* Specification of logging out: one visitor signs up, fills the cart and  *)
(* uses the logout controls of either script                               *)
(***************************************************************************)
LogoutPages == {"index", "logSign"}

LogoutButtons == {b \in Buttons : b.size = "350ml"}

NextLogout ==
  \/ \E p \in LogoutPages : PageLoad(p, TRUE)
  \/ \E e \in CartEmails, p \in SessionPasswords : handleSignup(e, p)
  \/ \E b \in LogoutButtons : AddToCartClick(b)
  \/ Logout
  \/ \E p \in LogoutPages : LegacyPageLoad(p)
  \/ \E e \in CartEmails, p \in SessionPasswords : LegacySignup(e, p)
  \/ \E b \in LogoutButtons : LegacyAddToCartClick(b, FALSE)
  \/ LegacyLogout
  \/ logoutUser

SpecLogout == InitCart /\ [][NextLogout]_vars

\* C25: after a logout handler of either script has run, no session record
\* is left under any session key of that script, the user is reported as
\* not logged in, and the cart of the user who logged out is empty
C25_LogoutClearsAll ==
  [][/\ Logout =>
          /\ cincoSession' = NoSession
          /\ sessionV1' = NoSession
          /\ ~isUserLoggedIn(sessionV1', cincoSession', now')
          /\ \A s \in {cincoSession, sessionV1} \ {NoSession} :
                userCartOf(cincoCart', s.userId) = <<>>
     /\ (LegacyLogout \/ logoutUser) =>
          /\ userSession' = NoSession
          /\ currentUser' = NoUser
          /\ cincoCoffeeCart' = <<>>]_vars


(***************************************************************************)
(* Specification of two visitors sharing one browser: each signs up, fills *)
(* a cart and checks out                                                   *)
(***************************************************************************)
CheckoutEmails == {"a@x.co", "b@x.co"}

NextCheckout ==
  \/ \E p \in Pages : PageLoad(p, TRUE)
  \/ \E e \in CheckoutEmails, p \in SessionPasswords : handleSignup(e, p)
  \/ \E i \in 1..MaxUsers, p \in SessionPasswords :
        i <= Len(cincoUsers) /\ LoginSubmit(cincoUsers[i].email, p)
  \/ \E i \in 1..MaxPending : LoginContinue(i, "ok")
  \/ \E b \in LogoutButtons : AddToCartClick(b)
  \/ CheckoutSubmit
  \/ Logout

SpecCheckout == InitCart /\ [][NextCheckout]_vars

\* C26: when a checkout submit places an order for the logged-in user, whose
\* cart was not empty, that user's cart is gone from the store afterwards
\* and the cart stored under every other user id is what it was
C26_CheckoutRemovesOwnCart ==
  [][(/\ CheckoutSubmit
      /\ cartSession # NoSession
      /\ userCartOf(cincoCart, cartSession.userId) # <<>>
      /\ orders' > 0)
       => /\ userCartOf(cincoCart', cartSession.userId) = <<>>
          /\ \A i \in 1..Len(cincoUsers) :
                cincoUsers[i].id # cartSession.userId
                  => userCartOf(cincoCart', cincoUsers[i].id)
                       = userCartOf(cincoCart, cincoUsers[i].id)]_vars

\* an order was just placed while another user's cart is in the store
C26_Witness ==
  /\ orders > 0
  /\ page = "checkout"
  /\ redirect.to = "productupdate"
  /\ cartSession # NoSession
  /\ userCartOf(cincoCart, cartSession.userId) = <<>>
  /\ \E i \in 1..Len(cincoUsers) :
        /\ cincoUsers[i].id # cartSession.userId
        /\ userCartOf(cincoCart, cincoUsers[i].id) # <<>>


(***************************************************************************)
(* Specification of the cart modal over a session's life: signup, page     *)
(* loads, add and remove clicks and the two periodic checks, while the     *)
(* clock moves                                                             *)
(***************************************************************************)
NextRemove ==
  \/ \E d \in CartSteps : AdvanceTime(d)
  \/ \E p \in Pages : PageLoad(p, TRUE)
  \/ \E e \in CartEmails, p \in SessionPasswords : handleSignup(e, p)
  \/ \E b \in Buttons : AddToCartClick(b)
  \/ \E idx \in 0..(MaxLines - 1) : RemoveFromCartClick(idx)
  \/ checkOnceTick
  \/ expireSessionTick

SpecRemove == InitCart /\ [][NextRemove]_vars

\* C27: on a product page, whenever a session is present under which
\* addToCart would add to a cart, removeFromCart(index) for a line of that
\* cart leaves the cart without exactly that line, the other lines in order
C27_RemoveExactlyOne ==
  (page \in ProductPages /\ cartSession # NoSession)
    => LET uid == cartSession.userId
           userCart == userCartOf(cincoCart, uid)
       IN  \A index \in 0..(MaxLines - 1) :
             index < Len(userCart)
               => userCartOf(removeFromCart(cincoCart, sessionV1, index), uid)
                    = SubSeq(userCart, 1, index) \o
                      SubSeq(userCart, index + 2, Len(userCart))


\* C28: the two session records agree: 'cincoSession' and
\* 'cinco_session_v1' are both absent, or both present for the same user id
C28_SessionKeysAgree ==
  /\ cincoSession = NoSession <=> sessionV1 = NoSession
  /\ (cincoSession # NoSession /\ sessionV1 # NoSession)
       => cincoSession.userId = sessionV1.userId

\* C29: once the stored session has been idle for longer than
\* SESSION_TIMEOUT_MS, an activity event does not make it valid again: after
\* refresh() isValid() is still false
C29_NoRevival ==
  [][(/\ sessionV1 # NoSession
      /\ now - sessionV1.lastActivity > SESSION_TIMEOUT_MS
      /\ refresh)
       => ~isValid(sessionV1', now')]_vars

\* C30: one submit of the checkout form, with a logged-in user and a cart
\* that is not empty, places exactly one order and no listener answers
\* "Your cart is empty"
C30_OneOrderPerSubmit ==
  [][(/\ CheckoutSubmit
      /\ cartSession # NoSession
      /\ userCartOf(cincoCart, cartSession.userId) # <<>>)
       => /\ orders' = 1
          /\ emptyNotices' = 0]_vars


\* C31: when the logout handler runs for the logged-in user, the cart
\* stored under every other user id is what it was before
C31_LogoutKeepsOtherCarts ==
  [][(Logout /\ cartSession # NoSession)
       => \A i \in 1..Len(cincoUsers) :
            cincoUsers[i].id # cartSession.userId
              => userCartOf(cincoCart', cincoUsers[i].id)
                   = userCartOf(cincoCart, cincoUsers[i].id)]_vars


(***************************************************************************)
(* Specification of the older script's login form when the visitor types   *)
(* the account's e-mail in either spelling                                 *)
(***************************************************************************)
NextCase ==
  \/ \E d \in LoginSteps : AdvanceTime(d)
  \/ LegacyPageLoad("logSign")
  \/ \E e \in CartEmails, p \in SessionPasswords : LegacySignup(e, p)
  \/ \E e \in LoginEmails, p \in Passwords : LegacyLogin(e, p)

SpecCase == InitCart /\ [][NextCase]_vars

C33_EntryShape ==
  \A k \in DOMAIN loginAttempts :
    loginAttempts[k] # NoEntry
      => /\ loginAttempts[k].attempts >= 1
         /\ loginAttempts[k].lockedUntil # 0
              <=> loginAttempts[k].attempts >= MAX_LOGIN_ATTEMPTS

\* the map holds a locked entry and one below the threshold, and isLocked
\* has been called
C33_Witness ==
  /\ lastLock.key # ""
  /\ \E k1, k2 \in DOMAIN loginAttempts :
        /\ loginAttempts[k1] # NoEntry
        /\ loginAttempts[k1].attempts >= MAX_LOGIN_ATTEMPTS
        /\ loginAttempts[k2] # NoEntry
        /\ loginAttempts[k2].attempts < MAX_LOGIN_ATTEMPTS


\* C34: while an e-mail is locked (now < lockedUntil), no step that keeps
\* its attempts record changes the record's lockedUntil, in the attempts
\* store of either script: a further recorded failure does not move it
C34_LockedUntilFixed ==
  [][/\ \A k \in DOMAIN loginAttempts :
          (/\ loginAttempts[k] # NoEntry
           /\ now < loginAttempts[k].lockedUntil
           /\ loginAttempts'[k] # NoEntry)
            => loginAttempts'[k].lockedUntil = loginAttempts[k].lockedUntil
     /\ \A e \in DOMAIN failedAttempts :
          (/\ failedAttempts[e] # NoEntry
           /\ now < failedAttempts[e].lockedUntil
           /\ failedAttempts'[e] # NoEntry)
            => failedAttempts'[e].lockedUntil
                 = failedAttempts[e].lockedUntil]_vars


(***************************************************************************)
(* Specification of both login forms under a lockout: one visitor logs in  *)
(* with the password of the account, before and after signing up (a login  *)
(* before the signup and a repeated signup are the failures), all within   *)
(* the lockout window                                                      *)
(***************************************************************************)
NextLocked ==
  \/ \E e \in CartEmails, p \in SessionPasswords : handleSignup(e, p)
  \/ \E e \in CartEmails, p \in SessionPasswords : LoginSubmit(e, p)
  \/ \E i \in 1..MaxPending : LoginContinue(i, "ok")
  \/ \E e \in CartEmails, p \in SessionPasswords : LegacySignup(e, p)
  \/ \E e \in CartEmails, p \in SessionPasswords : LegacyLogin(e, p)

SpecLocked == InitLimiter /\ [][NextLocked]_vars

\* C35: a login submitted while its e-mail is locked changes nothing.  In
\* part_001 the attempts map, the waiting submissions, the account list and
\* both session records are the same after the submit; in cincoscript.js
\* the listener leaves the attempts record, the session and 'currentUser'
\* as they were and records no failure, whatever the password and the
\* reCAPTCHA outcome
C35_LockedSubmitNoChange ==
  /\ [](\A e \in RawEmails, p \in Passwords, r \in LegacyRecaptcha :
          isAccountLocked(e)
            => LET res == legacyLoginResult(e, p, r)
               IN  /\ res.failedAttempts = failedAttempts
                   /\ res.userSession = userSession
                   /\ res.currentUser = currentUser
                   /\ ~res.recorded)
  /\ [][\A e \in RawEmails, p \in Passwords :
          (LoginSubmit(e, p) /\ isLocked(loginAttempts, Lower(e), now).locked)
            => UNCHANGED <<loginAttempts, pending, cincoUsers, cincoSession,
                           sessionV1>>]_vars

\* a locked e-mail's login was just rejected by part_001 while the same
\* account is locked in cincoscript.js
C35_Witness ==
  /\ lastLock.locked
  /\ isLocked(loginAttempts, lastLock.key, now).locked
  /\ \E e \in CartEmails : isAccountLocked(e) /\ emailKeys(e) # {}


(***************************************************************************)
(* Two tabs on one cart -- part_001:1464-1536, 1611-1762                   *)
(***************************************************************************)
\* addToCart(item) run by another tab of the same browser, open on a
\* product page with the same localStorage: it writes 'cincoCart' and
\* rebuilds its own modal; nothing in this tab listens for the change of
\* 'cincoCart', its modal stays as rendered
OtherTabAddToCart(b) ==
  /\ cartSession # NoSession
  /\ LET session == cartSession
         name == NameOf(b.words)
         item == [id |-> ItemId(b.words, b.size), name |-> name,
                  price |-> MENU_PRICES[name], qty |-> 1, size |-> b.size]
         userCart == userCartOf(cincoCart, session.userId)
         i == FindLineFrom(userCart, item.id, 1)
         u == UserIndex(session.userId)
     IN  /\ IF i # 0 THEN userCart[i].qty < MaxQty
                     ELSE Len(userCart) < MaxLines
         /\ cincoCart' = setUserCart(cincoCart, session.userId,
                                     mergeItem(userCart, item))
         /\ added' = [added EXCEPT ![u][b] = @ + 1]
  /\ UNCHANGED <<clockVars, pageVars, limiterVars, sessionVars, ghostVars,
                 lastVerify, cartModal, checkoutVars, legacyVars>>

\* removeFromCart(idx) run by that other tab from its own, freshly
\* rendered modal
OtherTabRemoveFromCart(idx) ==
  /\ sessionV1 # NoSession
  /\ cartSession # NoSession
  /\ idx < Len(userCartOf(cincoCart, cartSession.userId))
  /\ LET userCart == userCartOf(cincoCart, sessionV1.userId)
         u == UserIndex(sessionV1.userId)
     IN  /\ cincoCart' = removeFromCart(cincoCart, sessionV1, idx)
         /\ added' = IF idx < Len(userCart)
                     THEN [added EXCEPT
                             ![u][ButtonOf(userCart[idx + 1])] = 0]
                     ELSE added
  /\ UNCHANGED <<clockVars, pageVars, limiterVars, sessionVars, ghostVars,
                 lastVerify, cartModal, checkoutVars, legacyVars>>

NextTabs ==
  \/ \E p \in ProductPages : PageLoad(p, TRUE)
  \/ \E e \in CartEmails, p \in SessionPasswords : handleSignup(e, p)
  \/ \E i \in 1..MaxUsers, p \in SessionPasswords :
        i <= Len(cincoUsers) /\ LoginSubmit(cincoUsers[i].email, p)
  \/ \E i \in 1..MaxPending : LoginContinue(i, "ok")
  \/ \E b \in Buttons : AddToCartClick(b)
  \/ \E idx \in 0..(MaxLines - 1) : RemoveFromCartClick(idx)
  \/ \E b \in Buttons : OtherTabAddToCart(b)
  \/ \E idx \in 0..(MaxLines - 1) : OtherTabRemoveFromCart(idx)

SpecTabs == InitCart /\ [][NextTabs]_vars

\* C36: with the same user's cart open in two tabs, a click on the Remove
\* button of a line the modal displays leaves the stored cart of that user
\* without that very line and otherwise as it was (unchanged when the line
\* is already gone), whatever the other tab added or removed since the
\* modal was rendered; it never removes a different line.
C36_RemoveDisplayedLine ==
  (page \in ProductPages /\ cartSession # NoSession /\ sessionV1 # NoSession)
  => \A idx \in 0..(MaxLines - 1) :
       idx < Len(cartModal)
       => LET shown == cartModal[idx + 1]
              Keep(l) == l.id # shown
              uid == sessionV1.userId
          IN  userCartOf(removeFromCart(cincoCart, sessionV1, idx), uid) =
                SelectSeq(userCartOf(cincoCart, uid), Keep)

====
